---- MODULE Spec2Model ----
(***************************************************************************)
(* The k-mer counter of "Learning Go: CPU Profiling", round 4:             *)
(* toNum, read, encode, count, main and the fixed-bucket hashCounter       *)
(* (hash, get, inc).                                                       *)
(*                                                                         *)
(* A uint64 is a tuple of four 16-bit limbs, most significant first, so    *)
(* that shifts which push bits out of the word and the conversion          *)
(* int(key) are modelled at their real width.  A []byte is a sequence of   *)
(* byte values 0..255.  The table hc.entries is a function from the        *)
(* indices of the non-nil buckets to their chains, head first; a bucket    *)
(* outside the domain holds nil.                                           *)
(***************************************************************************)
EXTENDS FiniteSets, Integers, Sequences, TLC

VARIABLES
    stdin,      \* the raw bytes on standard input
    sequence,   \* main's query string (raw bytes)
    pc,         \* where the run is
    dna,        \* the buffer returned by read()
    length,     \* count's parameter length
    i,          \* count's loop index
    counts,     \* the hashCounter's entries
    seqCount,   \* outcome of the last get call
    incLog,     \* history: what inc has been called with, in call order
    lastKey,    \* key of the last inc or get call
    lastHash,   \* hash(lastKey), as an int
    lastOp,     \* "inc" or "get": the last call on the table; "none" before
    encIn,      \* the two code sequences handed to encode
    encOut,     \* the two keys encode returned
    rounds      \* what rounds 1, 2, ... printed for the sequence, in order

vars == <<stdin, sequence, pc, dna, length, i, counts, seqCount, incLog,
          lastKey, lastHash, lastOp, encIn, encOut, rounds>>

----------------------------------------------------------------------------
(* Widths and sizes fixed by the program. *)

KeyBits == 64

hashSize == 262144

(* Bounds of the model. *)

MaxLen == 3

MaxCalls == 3

----------------------------------------------------------------------------
(* uint64 arithmetic.  A word is the tuple <<w3, w2, w1, w0>> of its four   *)
(* 16-bit limbs: its value is ((w3 * 2^16 + w2) * 2^16 + w1) * 2^16 + w0.   *)

Limb == 2 ^ 16

Zero64 == <<0, 0, 0, 0>>

\* the words: four limbs, each below 2^16
Word == [1..4 -> 0..(Limb - 1)]

\* uint64(char) for a byte value
FromByte(char) == <<0, 0, 0, char>>

\* num << 1 where num << 2 was meant
ShlOne(num) ==
    << ((num[1] * 2) % Limb) + (num[2] \div (Limb \div 2)),
       ((num[2] * 2) % Limb) + (num[3] \div (Limb \div 2)),
       ((num[3] * 2) % Limb) + (num[4] \div (Limb \div 2)),
       (num[4] * 2) % Limb >>

\* num << 2 on a uint64: each limb takes the two top bits of the limb below
\* it, and the two top bits of the word are lost
Shl2(num) ==
    << ((num[1] * 4) % Limb) + (num[2] \div (Limb \div 4)),
       ((num[2] * 4) % Limb) + (num[3] \div (Limb \div 4)),
       ((num[3] * 4) % Limb) + (num[4] \div (Limb \div 4)),
       (num[4] * 4) % Limb >>

\* bitwise or of two naturals
RECURSIVE BitOr(_, _)
BitOr(a, b) ==
    IF a = 0 THEN b
    ELSE IF b = 0 THEN a
    ELSE 2 * BitOr(a \div 2, b \div 2)
         + (IF a % 2 = 1 \/ b % 2 = 1 THEN 1 ELSE 0)

\* a | b
Or64(a, b) ==
    <<BitOr(a[1], b[1]), BitOr(a[2], b[2]), BitOr(a[3], b[3]), BitOr(a[4], b[4])>>

\* bit 63 of the word: the sign of int(key)
TopBit(key) == key[1] \div (Limb \div 2)

\* key mod 2^31
Low31(key) == (key[3] % (Limb \div 2)) * Limb + key[4]

----------------------------------------------------------------------------
(* toNum, read, encode. *)

\* toNum.Replace on one byte: A, C, G, T become 0, 1, 2, 3; every other
\* byte is copied through.
toNumByte(b) ==
    CASE b = 65 -> 0
      [] b = 67 -> 1
      [] b = 71 -> 2
      [] b = 84 -> 3
      [] OTHER -> b

toNum(s) == [j \in 1..Len(s) |-> toNumByte(s[j])]

\* bufio.MaxScanTokenSize: the most bytes the Scanner buffers for one line
MaxScanTokenSize == 65536

\* bytes.IndexByte(data, '\n'), counted from 1; Len(data) + 1 when there
\* is no newline
IndexNewline(data) ==
    LET at == {j \in 1..Len(data) : data[j] = 10}
    IN  IF at = {} THEN Len(data) + 1
        ELSE CHOOSE j \in at : \A k \in at : j <= k

\* dropCR: a line without its last byte when that is a carriage return
dropCR(line) ==
    IF Len(line) > 0 /\ line[Len(line)] = 13
    THEN SubSeq(line, 1, Len(line) - 1) ELSE line

\* for scanner.Scan() { buf.WriteString(scanner.Text()) } with the split
\* function bufio.ScanLines: the input cut at each newline, the newline and
\* one carriage return before it dropped; a last line without newline
\* counts.  A line of MaxScanTokenSize bytes or more fills the buffer before
\* its end is seen: Scan returns false (ErrTooLong, which read never looks
\* at) and the lines before it are all that is read.
RECURSIVE ScanLines(_)
ScanLines(data) ==
    LET nl == IndexNewline(data)
    IN  IF data = <<>> THEN <<>>
        ELSE IF nl - 1 >= MaxScanTokenSize THEN <<>>
        ELSE dropCR(SubSeq(data, 1, nl - 1))
                \o ScanLines(SubSeq(data, nl + 1, Len(data)))

\* read(): every line of stdin through toNum, concatenated.  toNum works
\* byte by byte, so replacing per line or after concatenation is the same.
read(input) == toNum(ScanLines(input))

RECURSIVE EncodeLoop(_, _)
\* one pass of the loop body per byte; the new num is a word again before
\* the next pass starts
EncodeLoop(num, s) ==
    IF s = <<>> THEN num
    ELSE LET next == Or64(Shl2(num), FromByte(Head(s)))
         IN  CASE next \in Word -> EncodeLoop(next, Tail(s))

\* encode with the first byte in the lowest place: the bytes taken last first
encodeLowFirst(s) == EncodeLoop(Zero64, [j \in 1..Len(s) |-> s[Len(s) + 1 - j]])

encode(s) == EncodeLoop(Zero64, s)

----------------------------------------------------------------------------
(* hash and the hashCounter. *)

\* int(key) % hashSize.  int(key) reinterprets the word as a signed 64-bit
\* integer: key itself when bit 63 is clear, key - 2^64 when it is set, and
\* Go's % takes the sign of the dividend.  hashSize divides 2^31 and 2^64,
\* so the remainder is computed from the low 31 bits.
hash(key) ==
    LET r == Low31(key) % hashSize
    IN  IF TopBit(key) = 0 THEN r
        ELSE IF r = 0 THEN 0 ELSE r - hashSize

\* whether hc.entries[h] is inside the array; outside it the run panics
InRange(h) == 0 <= h /\ h < hashSize

Chain(hc, h) == IF h \in DOMAIN hc THEN hc[h] ELSE <<>>

RECURSIVE Find(_, _, _)
\* position of the first entry of chain c, from position j on, with this key;
\* 0 when there is none
Find(c, key, j) ==
    IF j > Len(c) THEN 0
    ELSE IF c[j].key = key THEN j
    ELSE Find(c, key, j + 1)

get(hc, key) ==
    LET c == Chain(hc, hash(key))
        j == Find(c, key, 1)
    IN  IF j = 0 THEN 0 ELSE c[j].value

\* inc without the walk of the chain: a new entry on every call
incAlwaysPrepend(hc, k) ==
    LET h == hash(k)
    IN  (h :> (<<[key |-> k, value |-> 1]>> \o Chain(hc, h))) @@ hc

\* inc that forgets the old head when it makes an entry: *p = e without
\* e.next = *p
incDropChain(hc, k) ==
    LET h == hash(k)
        c == Chain(hc, h)
        j == Find(c, k, 1)
    IN  IF j # 0
        THEN [hc EXCEPT ![h] = [c EXCEPT ![j].value = @ + 1]]
        ELSE (h :> <<[key |-> k, value |-> 1]>>) @@ hc

inc(hc, k) ==
    LET h == hash(k)
        c == Chain(hc, h)
        j == Find(c, k, 1)
    IN  IF j # 0
        THEN [hc EXCEPT ![h] = [c EXCEPT ![j].value = @ + 1]]
        ELSE (h :> (<<[key |-> k, value |-> 1]>> \o c)) @@ hc

\* what a call of get gives its caller: a value, or a panic when the
\* bucket index is outside the array
GetOutcome(hc, key) ==
    IF InRange(hash(key)) THEN [ok |-> TRUE, value |-> get(hc, key)]
    ELSE [ok |-> FALSE, value |-> 0]

NoOutcome == [ok |-> TRUE, value |-> 0]

----------------------------------------------------------------------------
(* Inputs. *)

StrUpTo(S, n) == UNION {[1..m -> S] : m \in 0..n}

Rep(b, n) == [j \in 1..n |-> b]

Substrings(s) ==
    {SubSeq(s, p, q) : p \in 1..Len(s), q \in 1..Len(s)} \ {<<>>}

\* A, C, G, T and N
RawBytes == {65, 67, 71, 84, 78}

ShortInputs == StrUpTo(RawBytes, MaxLen)

\* a long run of A between a few other bytes: windows of 10 symbols reach
\* bit 18 of the key, windows of 32 symbols reach bit 63
LongInputs ==
    {h \o Rep(65, n) \o t :
        h \in StrUpTo({67, 71, 78}, 1),
        t \in StrUpTo({65, 67, 78}, 2),
        n \in {30, 31}}

\* inputs of several lines
LineInputs ==
    {a \o <<10>> \o b : a \in StrUpTo({71, 13}, 2), b \in StrUpTo({71, 13}, 1)}

\* the sequence main asks for: GGTATTTTAATTTATAGT
MainSequence ==
    <<71, 71, 84, 65, 84, 84, 84, 84, 65, 65, 84, 84, 84, 65, 84, 65, 71, 84>>

\* main's sequence once, twice, between a T and an N; and AAAN
SampleInputs ==
    {MainSequence, MainSequence \o MainSequence,
     <<84>> \o MainSequence \o <<78>>, <<65, 65, 65, 78>>}

\* a line of A that the Scanner cannot hold, alone and after the line GG
TooLongLine == SubSeq([j \in 1..MaxScanTokenSize |-> 65], 1, MaxScanTokenSize)

TooLongInputs == {TooLongLine, <<71, 71, 10>> \o TooLongLine}

StdinSet ==
    ShortInputs \cup LongInputs \cup LineInputs \cup SampleInputs
        \cup TooLongInputs

\* GG, CATG, TTTTT, G followed by thirty A and a C, and main's sequence
FixedProbes ==
    { <<71, 71>>, <<67, 65, 84, 71>>, Rep(84, 5),
      <<71>> \o Rep(65, 30) \o <<67>>, MainSequence }

\* the window lengths tried on every input
ProbeLens == (1..(MaxLen + 1)) \cup {10, 18, 31, 32, 33, 34}

Probes(input) ==
    {w \in Substrings(ScanLines(input)) : Len(w) \in ProbeLens}
        \cup FixedProbes

----------------------------------------------------------------------------
(* main: read, count, get. *)

Init ==
    /\ stdin \in StdinSet
    /\ sequence \in Probes(stdin)
    /\ pc = "read"
    /\ dna = <<>>
    /\ length = Len(sequence)
    /\ i = 0
    /\ counts = <<>>
    /\ seqCount = NoOutcome
    /\ incLog = <<>>
    /\ lastKey = Zero64
    /\ lastHash = 0
    /\ lastOp = "none"
    /\ encIn = <<>>
    /\ encOut = <<>>
    /\ rounds = <<>>

\* dna := read()
MainRead ==
    /\ pc = "read"
    /\ dna' = read(stdin)
    /\ pc' = "count"
    /\ UNCHANGED <<stdin, sequence, length, i, counts, seqCount, incLog,
                   lastKey, lastHash, lastOp, encIn, encOut>>
    /\ UNCHANGED rounds

\* one iteration of count's loop: encode the window at i, inc its key.
\* inc indexes hc.entries with hash(key): outside the array the run panics.
CountLoop ==
    /\ pc = "count"
    /\ i < Len(dna) - length + 1
    /\ LET key == encode(SubSeq(dna, i + 1, i + length))
       IN  /\ incLog' = Append(incLog, [pos |-> i, key |-> key])
           /\ lastKey' = key
           /\ lastHash' = hash(key)
           /\ lastOp' = "inc"
           /\ IF InRange(hash(key))
              THEN /\ counts' = inc(counts, key)
                   /\ i' = i + 1
                   /\ pc' = pc
              ELSE /\ pc' = "panic"
                   /\ UNCHANGED <<counts, i>>
    /\ UNCHANGED <<stdin, sequence, dna, length, seqCount, encIn, encOut>>
    /\ UNCHANGED rounds

\* the loop condition fails: count returns the table
CountReturn ==
    /\ pc = "count"
    /\ ~(i < Len(dna) - length + 1)
    /\ pc' = "query"
    /\ UNCHANGED <<stdin, sequence, dna, length, i, counts, seqCount, incLog,
                   lastKey, lastHash, lastOp, encIn, encOut>>
    /\ UNCHANGED rounds

\* seqCount := counts.get(encode([]byte(toNum.Replace(sequence))))
MainQuery ==
    /\ pc = "query"
    /\ LET key == encode(toNum(sequence))
       IN  /\ lastKey' = key
           /\ lastHash' = hash(key)
           /\ lastOp' = "get"
           /\ seqCount' = GetOutcome(counts, key)
           /\ pc' = IF InRange(hash(key)) THEN "done" ELSE "panic"
    /\ UNCHANGED <<stdin, sequence, dna, length, i, counts, incLog, encIn,
                   encOut>>
    /\ UNCHANGED rounds

Next == MainRead \/ CountLoop \/ CountReturn \/ MainQuery

Spec == Init /\ [][Next]_vars

----------------------------------------------------------------------------
(* The hashCounter on its own: any inc and get calls on an empty table. *)

\* keys with bit 63, bit 18 and bit 0 set or clear: keys that differ in
\* bit 18 or bit 63 alone share their low 18 bits
TableKeys ==
    {<<t * (Limb \div 2), 0, m * 4, l>> : t \in {0, 1}, m \in {0, 1}, l \in {0, 1}}

TableInit ==
    /\ stdin = <<>>
    /\ sequence = <<>>
    /\ pc = "table"
    /\ dna = <<>>
    /\ length = 0
    /\ i = 0
    /\ counts = <<>>
    /\ seqCount = NoOutcome
    /\ incLog = <<>>
    /\ lastKey = Zero64
    /\ lastHash = 0
    /\ lastOp = "none"
    /\ encIn = <<>>
    /\ encOut = <<>>
    /\ rounds = <<>>

IncCall(k) ==
    /\ pc = "table"
    /\ Len(incLog) < MaxCalls
    /\ incLog' = Append(incLog, [pos |-> Len(incLog), key |-> k])
    /\ lastKey' = k
    /\ lastHash' = hash(k)
    /\ lastOp' = "inc"
    /\ IF InRange(hash(k))
       THEN /\ counts' = inc(counts, k)
            /\ pc' = pc
       ELSE /\ pc' = "panic"
            /\ UNCHANGED counts
    /\ UNCHANGED <<stdin, sequence, dna, length, i, seqCount, encIn, encOut>>
    /\ UNCHANGED rounds

GetCall(k) ==
    /\ pc = "table"
    /\ lastKey' = k
    /\ lastHash' = hash(k)
    /\ lastOp' = "get"
    /\ seqCount' = GetOutcome(counts, k)
    /\ pc' = IF InRange(hash(k)) THEN pc ELSE "panic"
    /\ UNCHANGED <<stdin, sequence, dna, length, i, counts, incLog, encIn,
                   encOut>>
    /\ UNCHANGED rounds

TableNext == \E k \in TableKeys : IncCall(k) \/ GetCall(k)

SpecTable == TableInit /\ [][TableNext]_vars

----------------------------------------------------------------------------
(* encode on its own, on two sequences of codes of one length. *)

\* every sequence of L codes when L is small; for a long L the sequences
\* that hold one code everywhere but at one place near either end
CodeSeqs(L) ==
    IF L <= MaxLen THEN [1..L -> 0..3]
    ELSE {[j \in 1..L |-> IF j = p THEN c ELSE d] :
             p \in {1, 2, L - 1, L}, c \in 0..3, d \in 0..3}

EncLens == (1..MaxLen) \cup {16, 31, 32, 33}

EncodeInit ==
    /\ \E L \in EncLens : encIn \in CodeSeqs(L) \X CodeSeqs(L)
    /\ encOut = <<>>
    /\ rounds = <<>>
    /\ pc = "encode"
    /\ stdin = <<>>
    /\ sequence = <<>>
    /\ dna = <<>>
    /\ length = 0
    /\ i = 0
    /\ counts = <<>>
    /\ seqCount = NoOutcome
    /\ incLog = <<>>
    /\ lastKey = Zero64
    /\ lastHash = 0
    /\ lastOp = "none"

EncodeCall ==
    /\ pc = "encode"
    /\ encOut' = <<encode(encIn[1]), encode(encIn[2])>>
    /\ pc' = "encoded"
    /\ UNCHANGED <<stdin, sequence, dna, length, i, counts, seqCount, incLog,
                   lastKey, lastHash, lastOp, encIn>>
    /\ UNCHANGED rounds

SpecEncode == EncodeInit /\ [][EncodeCall]_vars

----------------------------------------------------------------------------
(* The four rounds of the program, each run on the same input and the same *)
(* sequence.  A Go map is a function from its keys; a *int is a place in   *)
(* a heap of ints.                                                         *)

\* read() of rounds 1 and 2: the lines, concatenated, not replaced
readRaw(input) == ScanLines(input)

\* m[k] of a map[...]int: the zero value for a key that is not there
MapValue(m, k) == IF k \in DOMAIN m THEN m[k] ELSE 0

\* round 1, count: counts[string(dna[i:i+length])]++
RECURSIVE Count1Loop(_, _, _, _)
Count1Loop(m, d, L, n) ==
    IF n < Len(d) - L + 1
    THEN LET w    == SubSeq(d, n + 1, n + L)
             next == (w :> (MapValue(m, w) + 1)) @@ m
         IN  CASE w \in DOMAIN next -> Count1Loop(next, d, L, n + 1)
    ELSE m

count1(d, L) == Count1Loop(<<>>, d, L, 0)

\* round 1, main: counts[sequence]
main1(input, seq) ==
    [ok |-> TRUE, value |-> MapValue(count1(readRaw(input), Len(seq)), seq)]

\* the loop body of rounds 2 and 3 for the key k:
\* p, ok := counts[key]; if !ok { p = new(int); counts[key] = p }; *p++
PointerInc(st, k) ==
    LET fresh == k \notin DOMAIN st.m
        p     == IF fresh THEN Len(st.heap) + 1 ELSE st.m[k]
        heap  == IF fresh THEN Append(st.heap, 0) ELSE st.heap
    IN  [m    |-> IF fresh THEN (k :> p) @@ st.m ELSE st.m,
         heap |-> [heap EXCEPT ![p] = @ + 1]]

\* p, ok := counts[key]; if ok { seqCount = *p }
PointerValue(st, k) == IF k \in DOMAIN st.m THEN st.heap[st.m[k]] ELSE 0

EmptyPointerMap == [m |-> <<>>, heap |-> <<>>]

\* round 2, count: the keys are the windows as strings
RECURSIVE Count2Loop(_, _, _, _)
Count2Loop(st, d, L, n) ==
    IF n < Len(d) - L + 1
    THEN LET w    == SubSeq(d, n + 1, n + L)
             next == PointerInc(st, w)
         IN  CASE w \in DOMAIN next.m -> Count2Loop(next, d, L, n + 1)
    ELSE st

count2(d, L) == Count2Loop(EmptyPointerMap, d, L, 0)

main2(input, seq) ==
    [ok |-> TRUE,
     value |-> PointerValue(count2(readRaw(input), Len(seq)), seq)]

\* round 3, count: the keys are the windows encoded
RECURSIVE Count3Loop(_, _, _, _)
Count3Loop(st, d, L, n) ==
    IF n < Len(d) - L + 1
    THEN LET key  == encode(SubSeq(d, n + 1, n + L))
             next == PointerInc(st, key)
         IN  CASE key \in DOMAIN next.m -> Count3Loop(next, d, L, n + 1)
    ELSE st

count3(d, L) == Count3Loop(EmptyPointerMap, d, L, 0)

main3(input, seq) ==
    [ok |-> TRUE,
     value |-> PointerValue(count3(read(input), Len(seq)), encode(toNum(seq)))]

\* round 4, count, as one function: the table, or a panic in inc
RECURSIVE Count4Loop(_, _, _, _)
Count4Loop(hc, d, L, n) ==
    IF n < Len(d) - L + 1
    THEN LET key  == encode(SubSeq(d, n + 1, n + L))
             next == inc(hc, key)
         IN  IF InRange(hash(key))
             THEN CASE hash(key) \in DOMAIN next -> Count4Loop(next, d, L, n + 1)
             ELSE [ok |-> FALSE, table |-> hc]
    ELSE [ok |-> TRUE, table |-> hc]

count(d, L) == Count4Loop(<<>>, d, L, 0)

main4(input, seq) ==
    LET c == count(read(input), Len(seq))
    IN  IF c.ok THEN GetOutcome(c.table, encode(toNum(seq)))
        ELSE [ok |-> FALSE, value |-> 0]

\* the inputs of the four rounds: those of main, and CATG
RoundsInputs == StdinSet \cup {<<67, 65, 84, 71>>}

\* the sequences asked for: those of main, and AAAN
RoundsProbes(input) == Probes(input) \cup {<<65, 65, 65, 78>>}

RoundsInit ==
    /\ stdin \in RoundsInputs
    /\ sequence \in RoundsProbes(stdin)
    /\ pc = "round1"
    /\ rounds = <<>>
    /\ dna = <<>>
    /\ length = Len(sequence)
    /\ i = 0
    /\ counts = <<>>
    /\ seqCount = NoOutcome
    /\ incLog = <<>>
    /\ lastKey = Zero64
    /\ lastHash = 0
    /\ lastOp = "none"
    /\ encIn = <<>>
    /\ encOut = <<>>

RunRound(from, to, printed) ==
    /\ pc = from
    /\ rounds' = Append(rounds, printed)
    /\ pc' = to
    /\ UNCHANGED <<stdin, sequence, dna, length, i, counts, seqCount, incLog,
                   lastKey, lastHash, lastOp, encIn, encOut>>

Round1 == RunRound("round1", "round2", main1(stdin, sequence))

Round2 == RunRound("round2", "round3", main2(stdin, sequence))

Round3 == RunRound("round3", "round4", main3(stdin, sequence))

Round4 == RunRound("round4", "compared", main4(stdin, sequence))

RoundsNext == Round1 \/ Round2 \/ Round3 \/ Round4

SpecRounds == RoundsInit /\ [][RoundsNext]_vars

----------------------------------------------------------------------------
(* What the properties below are stated with. *)

Alphabet == {65, 67, 71, 84}

Alphabetic(s) == \A j \in 1..Len(s) : s[j] \in Alphabet

\* brute force: the number of start positions at which w occurs in s
BruteCount(s, w) ==
    Cardinality({p \in 1..(Len(s) - Len(w) + 1) :
                    SubSeq(s, p, p + Len(w) - 1) = w})

Windows(s, L) == {SubSeq(s, p, p + L - 1) : p \in 1..(Len(s) - L + 1)}

Returned(n) == [ok |-> TRUE, value |-> n]

\* count has returned its table
Counted == pc \in {"query", "done"}

\* the number of inc(k) calls made so far
Calls(k) == Cardinality({n \in 1..Len(incLog) : incLog[n].key = k})

\* the places of the table's entries: bucket and position in its chain
Places(hc) == UNION {{<<h, j>> : j \in 1..Len(hc[h])} : h \in DOMAIN hc}

\* the number of entries with key k in the whole table
EntriesOf(hc, k) ==
    Cardinality({e \in Places(hc) : hc[e[1]][e[2]].key = k})

\* the p-th pair of bits of a word, p = 0 for the two lowest bits
Crumb(key, p) == (key[4 - (p \div 8)] \div (4 ^ (p % 8))) % 4

\* the sum of the values of the entries at the places S of a table
RECURSIVE SumAt(_, _)
SumAt(hc, S) ==
    IF S = {} THEN 0
    ELSE LET e == CHOOSE x \in S : TRUE
         IN  hc[e[1]][e[2]].value + SumAt(hc, S \ {e})

SumValues(hc) == SumAt(hc, Places(hc))

\* the input as the scanner hands it on: the lines, one after the other
Lines == ScanLines(stdin)

\* the number of windows of count's buffer
NWindows == IF Len(dna) - length + 1 > 0 THEN Len(dna) - length + 1 ELSE 0

\* the start positions inc has been called for, in call order
Positions == [n \in 1..Len(incLog) |-> incLog[n].pos]

\* the n lowest bits of a limb, all of it for n >= 16, none for n <= 0
KeepBits(limb, n) ==
    IF n >= 16 THEN limb ELSE IF n <= 0 THEN 0 ELSE limb % (2 ^ n)

\* a word masked to its n lowest bits
MaskLow(key, n) ==
    <<KeepBits(key[1], n - 48), KeepBits(key[2], n - 32),
      KeepBits(key[3], n - 16), KeepBits(key[4], n)>>

\* the key of the next window from the key of the previous one: shifted left
\* by two bits, the entering code or-ed in, masked to 2*L bits
IncrementalKey(prev, code, L) ==
    MaskLow(Or64(Shl2(prev), FromByte(code)), 2 * L)

\* key mod hashSize, the key's low bits (hashSize divides 2^31)
KeyModHashSize(key) == Low31(key) % hashSize

----------------------------------------------------------------------------
(* C1: for an input over A, C, G, T of length >= L, 1 <= L <= 31, once      *)
(* count(dna, L) has returned, get(encode(w)) of every window w of length   *)
(* L of the input is the number of start positions at which w occurs in     *)
(* the input, found by a brute-force scan.  The input is the string that    *)
(* count is given: the lines that read has scanned, before toNum.           *)
C1_CountsMatchBruteForce ==
    (/\ Counted
     /\ Alphabetic(Lines)
     /\ 1 <= length /\ length <= 31
     /\ Len(Lines) >= length)
    => \A w \in Windows(Lines, length) :
          GetOutcome(counts, encode(toNum(w))) = Returned(BruteCount(Lines, w))

\* a counted alphabetic input with windows of 10 symbols or more, two keys
\* chained in one bucket and a window that occurs more than once
C1_Witness ==
    /\ Counted
    /\ Alphabetic(Lines)
    /\ 10 <= length /\ length <= 31
    /\ Len(Lines) >= length
    /\ \E h \in DOMAIN counts :
          /\ Len(counts[h]) >= 2
          /\ \E j \in 1..Len(counts[h]) : counts[h][j].value >= 2

----------------------------------------------------------------------------
(* C2: after any sequence of inc calls on an empty hashCounter, get(k)     *)
(* returns, for every key k, the number of inc(k) calls made since the     *)
(* table was created, keys that share a bucket included.                   *)
C2_GetReturnsNumberOfIncCalls ==
    lastOp = "get" => seqCount = Returned(Calls(lastKey))

\* the same for the keys whose bucket index is inside the array
C2_ForKeysInRange ==
    \A k \in TableKeys :
        InRange(hash(k)) => GetOutcome(counts, k) = Returned(Calls(k))

(* C3: in every state reached by inc calls the table holds exactly one     *)
(* entry for each key that has been passed to inc and none for any other   *)
(* key, also when two keys share a bucket.                                 *)
C3_OneEntryPerKeyPassedToInc ==
    \A k \in TableKeys :
        EntriesOf(counts, k) = (IF Calls(k) > 0 THEN 1 ELSE 0)

\* never two entries with one key
C3_AtMostOneEntryPerKey ==
    \A k \in TableKeys : EntriesOf(counts, k) <= 1

(* C4: get(k) returns 0, without error, for every key k that has never     *)
(* been passed to inc, on an empty table and on a populated one.           *)
C4_GetOfKeyNeverIncrementedIsZero ==
    (lastOp = "get" /\ Calls(lastKey) = 0) => seqCount = Returned(0)

(* C5: for every 64-bit key, keys with the top bit set included, hash(key) *)
(* is key mod hashSize, the low bits of the key, and so a bucket index in  *)
(* 0 .. hashSize-1, in inc and in get.                                     *)
C5_HashIsKeyModHashSize ==
    lastOp # "none" =>
        /\ lastHash = KeyModHashSize(lastKey)
        /\ InRange(lastHash)

\* the same for the keys with the top bit clear
C5_ForKeysBelowTopBit ==
    (lastOp # "none" /\ TopBit(lastKey) = 0) =>
        /\ lastHash = KeyModHashSize(lastKey)
        /\ InRange(lastHash)

----------------------------------------------------------------------------
(* C6: for 1 <= L <= 32 and two sequences of L codes in 0..3, encode       *)
(* returns the same key exactly when the sequences are the same, and the   *)
(* key holds the codes two bits each, the first code in the most           *)
(* significant place.                                                      *)
C6_EncodeInjectiveFirstCodeOnTop ==
    (pc = "encoded" /\ 2 * Len(encIn[1]) <= KeyBits) =>
        /\ (encOut[1] = encOut[2]) <=> (encIn[1] = encIn[2])
        /\ \A n \in {1, 2} : \A p \in 0..((KeyBits \div 2) - 1) :
              Crumb(encOut[n], p) =
                  (IF p < Len(encIn[n]) THEN encIn[n][Len(encIn[n]) - p] ELSE 0)

\* two sequences of 32 codes that differ in the first code alone, one of them
\* setting the top bit of its key
C6_Witness ==
    /\ pc = "encoded"
    /\ 2 * Len(encIn[1]) = KeyBits
    /\ encIn[1][1] >= 2
    /\ encIn[1][1] # encIn[2][1]
    /\ \A j \in 2..Len(encIn[1]) : encIn[1][j] = encIn[2][j]

----------------------------------------------------------------------------
(* C7: every element of the buffer made from the raw input, and of the     *)
(* encoded query, is a code in 0..3: a byte outside A, C, G, T is rejected *)
(* or flagged and never copied unchanged into the buffer.                  *)
C7_BufferHoldsOnlyCodes ==
    pc # "read" =>
        /\ \A j \in 1..Len(dna) : dna[j] \in 0..3
        /\ \A j \in 1..Len(sequence) : toNum(sequence)[j] \in 0..3

(* C8: a window with a byte outside A, C, G, T never adds to the count of  *)
(* a query made of A, C, G, T alone: the count reported for such a query   *)
(* is the number of positions where the raw input holds the query itself.  *)
C8_ReportedCountIsLiteralCount ==
    (pc = "done" /\ Alphabetic(sequence)) =>
        seqCount = Returned(BruteCount(Lines, sequence))

\* the same for inputs made of A, C, G, T alone and keys of 64 bits or less
C8_ForAlphabeticInput ==
    (/\ pc = "done"
     /\ Alphabetic(sequence)
     /\ Alphabetic(Lines)
     /\ 2 * length <= KeyBits) =>
        seqCount = Returned(BruteCount(Lines, sequence))

(* C9: when 2*L exceeds the 64 bits of the key the run fails with a         *)
(* configuration error before any window is scanned and before any inc     *)
(* call: no key that lost its high-order symbols is ever inserted.         *)
C9_KeyOverflowFailsBeforeScanning ==
    2 * length > KeyBits => (incLog = <<>> /\ counts = <<>>)

(* C10: count(dna, L) calls inc once for each start position               *)
(* 0 .. len(dna)-L and for no other, so that on return the entry values    *)
(* sum to max(0, len(dna)-L+1); when len(dna) < L no inc call is made, the *)
(* table has no entry and every get returns 0 without error.               *)
C10_IncOncePerStartPosition ==
    /\ Positions = [n \in 1..Len(incLog) |-> n - 1]
    /\ Len(incLog) <= NWindows
    /\ pc \in {"query", "done", "panic"} => Len(incLog) = NWindows
    /\ Counted => SumValues(counts) = NWindows
    /\ (pc \in {"done", "panic"} /\ Len(dna) < length) =>
          (counts = <<>> /\ seqCount = Returned(0))

\* the same for the runs in which no call on the table panics
C10_InRunsWithoutPanic ==
    pc # "panic" =>
        /\ Positions = [n \in 1..Len(incLog) |-> n - 1]
        /\ Len(incLog) <= NWindows
        /\ Counted => (Len(incLog) = NWindows /\ SumValues(counts) = NWindows)
        /\ (pc = "done" /\ Len(dna) < length) =>
              (counts = <<>> /\ seqCount = Returned(0))

----------------------------------------------------------------------------
(* C11: with L <= 32 and a buffer of codes in 0..3, the key handed to inc  *)
(* at window position i+1 is the key of position i shifted left by two     *)
(* bits, or-ed with buffer[i+L] and masked to 2*L bits, and the keys       *)
(* handed to inc are those encode gives for each window from scratch.      *)
C11_KeysFollowIncrementalUpdate ==
    (/\ 1 <= length
     /\ 2 * length <= KeyBits
     /\ \A j \in 1..Len(dna) : dna[j] \in 0..3) =>
        /\ \A n \in 1..Len(incLog) :
              incLog[n].key =
                  encode(SubSeq(dna, incLog[n].pos + 1, incLog[n].pos + length))
        /\ \A n \in 1..(Len(incLog) - 1) :
              incLog[n + 1].key =
                  IncrementalKey(incLog[n].key,
                                 dna[incLog[n].pos + length + 1], length)

\* windows of 32 codes, the first key with its two top bits not both clear,
\* and a second window scanned after it
C11_Witness ==
    /\ 2 * length = KeyBits
    /\ \A j \in 1..Len(dna) : dna[j] \in 0..3
    /\ Len(incLog) >= 2
    /\ incLog[1].key[1] >= Limb \div 4

----------------------------------------------------------------------------
(* C12: in every state reached by inc and get calls each entry in the      *)
(* chain of bucket b has hash(entry.key) = b; an entry, once made, keeps   *)
(* its key and its bucket, is never removed, and its value never           *)
(* decreases; get changes nothing and inc(k) changes the entry for k       *)
(* alone.                                                                  *)

BucketsRight(hc) ==
    \A h \in DOMAIN hc : \A j \in 1..Len(hc[h]) : hash(hc[h][j].key) = h

\* every entry of hc is in hc2, in its bucket, as far from the end of the
\* chain as before, with its key and a value no smaller
EntriesKept(hc, hc2) ==
    \A h \in DOMAIN hc :
        /\ h \in DOMAIN hc2
        /\ Len(hc2[h]) >= Len(hc[h])
        /\ \A j \in 1..Len(hc[h]) :
              LET e  == hc[h][j]
                  e2 == hc2[h][j + Len(hc2[h]) - Len(hc[h])]
              IN  e2.key = e.key /\ e2.value >= e.value

\* from hc to hc2 nothing changed but the entry for k: the other entries
\* have their values, and an entry that is new has the key k
OnlyEntryOfKeyChanged(hc, hc2, k) ==
    /\ \A h \in DOMAIN hc : \A j \in 1..Len(hc[h]) :
          hc[h][j].key # k =>
              (h \in DOMAIN hc2 /\ Len(hc2[h]) >= Len(hc[h])
               /\ hc2[h][j + Len(hc2[h]) - Len(hc[h])] = hc[h][j])
    /\ \A h \in DOMAIN hc2 :
          \A j \in 1..(Len(hc2[h]) - Len(Chain(hc, h))) : hc2[h][j].key = k

C12_EntriesStayInTheirBuckets ==
    /\ [](BucketsRight(counts))
    /\ [][/\ EntriesKept(counts, counts')
          /\ lastOp' = "get" => counts' = counts
          /\ lastOp' = "inc" => OnlyEntryOfKeyChanged(counts, counts', lastKey')
         ]_vars

\* after a get: a bucket with two entries, the older one incremented after
\* the newer one was made
C12_Witness ==
    /\ lastOp = "get"
    /\ \E h \in DOMAIN counts :
          /\ Len(counts[h]) >= 2
          /\ counts[h][Len(counts[h])].value >= 2

----------------------------------------------------------------------------
(* C13: rounds 1 to 4 are equivalent to their users: for every input over  *)
(* A, C, G, T and every sequence of length L, 1 <= L <= 31, the four print *)
(* the same count, 0 when the sequence never occurs in the input or the    *)
(* input is shorter than L.                                                *)
C13_RoundsPrintTheSameCount ==
    (/\ pc = "compared"
     /\ Alphabetic(Lines)
     /\ 1 <= length /\ length <= 31) =>
        /\ rounds[1] = Returned(BruteCount(Lines, sequence))
        /\ rounds[2] = rounds[1]
        /\ rounds[3] = rounds[1]
        /\ rounds[4] = rounds[1]

\* the same for the sequences made of A, C, G, T alone
C13_ForAlphabeticSequences ==
    (/\ pc = "compared"
     /\ Alphabetic(Lines)
     /\ Alphabetic(sequence)
     /\ 1 <= length /\ length <= 31) =>
        /\ rounds[1] = Returned(BruteCount(Lines, sequence))
        /\ rounds[2] = rounds[1]
        /\ rounds[3] = rounds[1]
        /\ rounds[4] = rounds[1]

\* rounds 1 and 2 print the same for every input and every sequence
C13_RoundsOneAndTwo ==
    pc = "compared" => rounds[2] = rounds[1]

====
